---------------------------- MODULE Spec2Model ----------------------------
(***************************************************************************)
(* A model of storage_insights.py: the HTTP/JSON client (request_json),    *)
(* the token exchange (obtain_token), the listing fetch                    *)
(* (fetch_storage_systems), the table renderer (_format_ts, build_table)   *)
(* and the orchestrator (main).                                            *)
(*                                                                         *)
(* Python values are modelled as follows.                                  *)
(*  - A decoded JSON value is a record tagged by its Python type in field  *)
(*    t: "null" (None), "bool", "int", "float", "inf" (float infinity,     *)
(*    which json.loads accepts as Infinity), "str", "list", "dict".        *)
(*    A float is kept in thousandths (v = 1500 is 1.5).  A dict is the     *)
(*    sequence of its <<key, value>> pairs in insertion order.             *)
(*  - A Python str is a TLA+ string.  Strings of the module are ASCII, so  *)
(*    the three non-ASCII characters of the placeholder literal at         *)
(*    storage_insights.py:111 are written as three '~'.                    *)
(*  - An optional value (a local not yet bound, a file not yet written,    *)
(*    no exception) is a sequence of length 0 or 1.                        *)
(*  - A call that may raise returns [ok |-> TRUE, value |-> v] or          *)
(*    [ok |-> FALSE, exc |-> e], e naming the exception's Python type,     *)
(*    the function that raised it and what its message carries.            *)
(***************************************************************************)
EXTENDS Integers, Sequences, FiniteSets, TLC

VARIABLES
    args,   \* the parsed command line (argparse.Namespace) of a run of main
    run,    \* the state of one run of main
    pair,   \* two runs of main on the same command line except --quiet
    call,   \* a call of one function: its name and its input
    ret     \* what that call returned or raised (empty before the call)

vars == <<args, run, pair, call, ret>>

----------------------------------------------------------------------------
(* Bounds of the model.                                                    *)

\* longest response body, in chunks
MaxBody == 2
\* longest record sequence given to build_table
MaxRecords == 3
\* largest --limit
MaxLimit == 3
\* longest data list of a listing payload in a run of main
MaxSystems == 2
\* largest integer int() is asked to read from a str
MaxParse == 130

----------------------------------------------------------------------------
(* JSON values                                                             *)

JNull == [t |-> "null"]
JInf == [t |-> "inf"]
JBool(b) == [t |-> "bool", v |-> b]
JInt(n) == [t |-> "int", v |-> n]
JFloat(thousandths) == [t |-> "float", v |-> thousandths]
JStr(s) == [t |-> "str", v |-> s]
JList(xs) == [t |-> "list", v |-> xs]
JDict(kvs) == [t |-> "dict", v |-> kvs]

Ok(v) == [ok |-> TRUE, value |-> v]
Raise(e) == [ok |-> FALSE, exc |-> e]

Min(a, b) == IF a < b THEN a ELSE b
Max(a, b) == IF a > b THEN a ELSE b

\* key in d, for a dict d
HasKey(d, key) == \E i \in 1..Len(d.v) : d.v[i][1] = key

\* d[key], for a dict d that has the key
Lookup(d, key) == d.v[CHOOSE i \in 1..Len(d.v) : d.v[i][1] = key][2]

\* d.get(key, default), for a dict d
DictGet(d, key, default) == IF HasKey(d, key) THEN Lookup(d, key) ELSE default

\* obj[key] as Python evaluates it for a str key: the value, KeyError when a
\* dict lacks the key, TypeError when obj is not a dict (a list or a str
\* wants integer indices, the other types are not subscriptable)
Subscript(obj, key) ==
    IF obj.t = "dict"
    THEN IF HasKey(obj, key) THEN Ok(Lookup(obj, key)) ELSE Raise("KeyError")
    ELSE Raise("TypeError")

\* bool(x)
Truthy(x) ==
    CASE x.t = "null" -> FALSE
      [] x.t = "bool" -> x.v
      [] x.t = "int" -> x.v # 0
      [] x.t = "float" -> x.v # 0
      [] x.t = "inf" -> TRUE
      [] x.t = "str" -> x.v # ""
      [] x.t = "list" -> Len(x.v) > 0
      [] x.t = "dict" -> Len(x.v) > 0

Digits == <<"0", "1", "2", "3", "4", "5", "6", "7", "8", "9">>

\* str(n) for an int n
RECURSIVE IntToStr(_)
IntToStr(n) ==
    IF n < 0 THEN "-" \o IntToStr(-n)
    ELSE IF n < 10 THEN Digits[n + 1]
    ELSE IntToStr(n \div 10) \o Digits[(n % 10) + 1]

\* n in decimal, zero-padded to at least w digits (format spec 0wd), n >= 0
RECURSIVE ZeroPad(_, _)
ZeroPad(n, w) ==
    IF w <= 1 THEN IntToStr(n)
    ELSE IF n < 10 THEN "0" \o ZeroPad(n, w - 1)
    ELSE ZeroPad(n \div 10, w - 1) \o Digits[(n % 10) + 1]

\* the fraction digits of repr(float): three digits, trailing zeros dropped,
\* one digit kept
FracDigits(f) ==
    IF f % 100 = 0 THEN Digits[(f \div 100) + 1]
    ELSE IF f % 10 = 0 THEN ZeroPad(f \div 10, 2)
    ELSE ZeroPad(f, 3)

\* repr(x) for a float x >= 0 kept in thousandths
FloatRepr(th) == IntToStr(th \div 1000) \o "." \o FracDigits(th % 1000)

\* str(x) and repr(x): they differ on a str, which repr quotes
RECURSIVE PyStr(_), PyRepr(_), ReprItems(_), ReprPairs(_)
PyStr(x) == IF x.t = "str" THEN x.v ELSE PyRepr(x)
PyRepr(x) ==
    CASE x.t = "null" -> "None"
      [] x.t = "bool" -> IF x.v THEN "True" ELSE "False"
      [] x.t = "int" -> IntToStr(x.v)
      [] x.t = "float" -> FloatRepr(x.v)
      [] x.t = "inf" -> "inf"
      [] x.t = "str" -> "'" \o x.v \o "'"
      [] x.t = "list" -> "[" \o ReprItems(x.v) \o "]"
      [] x.t = "dict" -> "{" \o ReprPairs(x.v) \o "}"
ReprItems(xs) ==
    IF Len(xs) = 0 THEN ""
    ELSE IF Len(xs) = 1 THEN PyRepr(xs[1])
    ELSE PyRepr(xs[1]) \o ", " \o ReprItems(Tail(xs))
ReprPairs(kvs) ==
    IF Len(kvs) = 0 THEN ""
    ELSE "'" \o kvs[1][1] \o "': " \o PyRepr(kvs[1][2])
         \o (IF Len(kvs) = 1 THEN "" ELSE ", " \o ReprPairs(Tail(kvs)))

----------------------------------------------------------------------------
(* _format_ts (storage_insights.py:109-116)                                *)

Placeholder == "~~~"

\* ms / 1000 as fromtimestamp reads it: whole seconds and microseconds.
\* True is 1; a float in thousandths of a millisecond is microseconds.
EpochSeconds(ms) ==
    CASE ms.t = "int" -> <<ms.v \div 1000, (ms.v % 1000) * 1000>>
      [] ms.t = "bool" -> <<0, IF ms.v THEN 1000 ELSE 0>>
      [] ms.t = "float" -> <<ms.v \div 1000000, ms.v % 1000000>>

\* the proleptic Gregorian <<year, month, day>> of a day count from
\* 1970-01-01, as datetime computes it: the day of the 400-year era, the
\* year of the era, the day and the month of a year that starts in March
YearOfEra(doe) == (doe - doe \div 1460 + doe \div 36524 - doe \div 146096) \div 365
DayOfYear(doe, yoe) == doe - (365 * yoe + yoe \div 4 - yoe \div 100)
CivilFromMarch(year, doy, mp) ==
    <<year + (IF mp < 10 THEN 0 ELSE 1),
      IF mp < 10 THEN mp + 3 ELSE mp - 9,
      doy - (153 * mp + 2) \div 5 + 1>>
CivilFromEra(era, doe, yoe, doy) ==
    CivilFromMarch(yoe + era * 400, doy, (5 * doy + 2) \div 153)
CivilFromDays(days) ==
    LET z == days + 719468
        era == z \div 146097
        doe == z - era * 146097
        yoe == YearOfEra(doe)
    IN  CivilFromEra(era, doe, yoe, DayOfYear(doe, yoe))

\* isoformat() of a date <<y, m, d>>, a second of the day and microseconds:
\* the microseconds are printed only when they are not zero
FormatDateTime(ymd, sod, us) ==
    ZeroPad(ymd[1], 4) \o "-" \o ZeroPad(ymd[2], 2) \o "-" \o ZeroPad(ymd[3], 2)
    \o "T" \o ZeroPad(sod \div 3600, 2) \o ":" \o ZeroPad((sod % 3600) \div 60, 2)
    \o ":" \o ZeroPad(sod % 60, 2)
    \o (IF us = 0 THEN "" ELSE "." \o ZeroPad(us, 6))
    \o "+00:00"

\* datetime.fromtimestamp(s, tz=utc).isoformat()
IsoFormat(sec, us) == FormatDateTime(CivilFromDays(sec \div 86400), sec % 86400, us)

\* Whether the try block of _format_ts ends without an exception: the
\* division needs a number (TypeError for a str, a list, a dict), and
\* fromtimestamp needs a finite one (OverflowError for infinity) whose year
\* is one datetime has.
Convertible(ms) ==
    /\ ms.t \in {"int", "bool", "float"}
    /\ CivilFromDays(EpochSeconds(ms)[1] \div 86400)[1] \in 1..9999

\* _format_ts with the test of line 110 narrowed to `ms is None`
_format_ts_no_falsy(ms) ==
    IF ms.t = "null" THEN Placeholder
    ELSE IF ~Convertible(ms) THEN PyStr(ms)
    ELSE IsoFormat(EpochSeconds(ms)[1], EpochSeconds(ms)[2])

_format_ts(ms) ==
    IF ~Truthy(ms) THEN Placeholder
    ELSE IF ~Convertible(ms) THEN PyStr(ms)
    ELSE IsoFormat(EpochSeconds(ms)[1], EpochSeconds(ms)[2])

----------------------------------------------------------------------------
(* build_table (storage_insights.py:119-151)                               *)

Headers == <<"Name", "Last Successful Probe (UTC)",
             "Last Successful Monitor (UTC)", "Condition">>

\* lines 126-131: the four cells of a record
TableRow(item) ==
    << PyStr(DictGet(item, "name", JStr(""))),
       _format_ts(DictGet(item, "last_successful_probe", JNull)),
       _format_ts(DictGet(item, "last_successful_monitor", JNull)),
       PyStr(DictGet(item, "condition", JStr(""))) >>

\* rows.append(row) before the rows the rest of the loop appends
Appended(row, rest) == IF rest.ok THEN Ok(<<row>> \o rest.value) ELSE rest

\* the loop with the limit test of line 123 off by one (idx > limit)
RECURSIVE TableRowsOffByOne(_, _, _)
TableRowsOffByOne(items, idx, limit) ==
    IF idx >= Len(items) THEN Ok(<<>>)
    ELSE IF Len(limit) = 1 /\ idx > limit[1] THEN Ok(<<>>)
    ELSE IF items[idx + 1].t # "dict" THEN Raise("AttributeError")
    ELSE Appended(TableRow(items[idx + 1]), TableRowsOffByOne(items, idx + 1, limit))

\* The for loop of lines 122-132 from index idx (0-based) on: the rows
\* appended, or the AttributeError of item.get on an item that is no dict.
\* The limit is tested before the item is touched.
RECURSIVE TableRows(_, _, _)
TableRows(items, idx, limit) ==
    IF idx >= Len(items) THEN Ok(<<>>)
    ELSE IF Len(limit) = 1 /\ idx >= limit[1] THEN Ok(<<>>)
    ELSE IF items[idx + 1].t # "dict" THEN Raise("AttributeError")
    ELSE Appended(TableRow(items[idx + 1]), TableRows(items, idx + 1, limit))

\* what enumerate(items) walks: the elements of a list, the keys of a dict;
\* TypeError for a value that is not iterable
Iterate(items) ==
    CASE items.t = "list" -> Ok(items.v)
      [] items.t = "dict" -> Ok([i \in 1..Len(items.v) |-> JStr(items.v[i][1])])
      [] items.t \in {"null", "bool", "int", "float", "inf"} -> Raise("TypeError")

\* lines 141-144
RECURSIVE Widths(_, _)
Widths(rows, acc) ==
    IF Len(rows) = 0 THEN acc
    ELSE Widths(Tail(rows), [c \in 1..4 |-> Max(acc[c], Len(rows[1][c]))])

RECURSIVE Repeat(_, _)
Repeat(s, n) == IF n <= 0 THEN "" ELSE s \o Repeat(s, n - 1)

\* "{:w}".format(s): a str is left-aligned and padded with spaces
Pad(s, w) == s \o Repeat(" ", w - Len(s))

\* sep.join(parts)
RECURSIVE Join(_, _)
Join(sep, parts) ==
    IF Len(parts) = 0 THEN ""
    ELSE IF Len(parts) = 1 THEN parts[1]
    ELSE parts[1] \o sep \o Join(sep, Tail(parts))

\* fmt.format(*row), line 146
FormatRow(row, widths) == Join(" | ", [c \in 1..4 |-> Pad(row[c], widths[c])])

\* line 147
Divider(widths) == Join("-+-", [c \in 1..4 |-> Repeat("-", widths[c])])

\* lines 141-151 on the rows collected
RenderTable(rows, widths) ==
    Join("\n", <<FormatRow(Headers, widths), Divider(widths)>>
               \o [i \in 1..Len(rows) |-> FormatRow(rows[i], widths)])

HeaderWidths == [c \in 1..4 |-> Len(Headers[c])]

\* the loop over what enumerate gave, if it gave anything
RowsOf(it, limit) == IF it.ok THEN TableRows(it.value, 0, limit) ELSE it

TableOf(rs) ==
    IF rs.ok THEN Ok(RenderTable(rs.value, Widths(rs.value, HeaderWidths))) ELSE rs

build_table(items, limit) == TableOf(RowsOf(Iterate(items), limit))

----------------------------------------------------------------------------
(* request_json (storage_insights.py:45-73)                                *)
(*                                                                         *)
(* What the network does with a request is an outcome the environment      *)
(* chooses:                                                                *)
(*   [kind |-> "unreachable", reason |-> s]  urlopen raises URLError       *)
(*       (DNS failure, refused connection, timeout while connecting);      *)
(*   [kind |-> "read_timeout"]  the socket times out after the request was *)
(*       sent: urlopen or resp.read raises TimeoutError, which is no       *)
(*       URLError;                                                         *)
(*   [kind |-> "response", status |-> n, body |-> b]  the server answers;  *)
(*       urlopen raises HTTPError unless the status is 2xx.                *)
(* A body is a sequence of chunks of bytes: [c |-> "json", doc |-> d] is   *)
(* the JSON text of d, [c |-> "ws"] is JSON whitespace, [c |-> "junk"] is  *)
(* text that is part of no JSON document (such as an HTML page), and       *)
(* [c |-> "bad"] is a byte sequence the charset cannot decode.             *)

API_BASE == "https://dev.insights.ibm.com"

JsonChunk(d) == [c |-> "json", doc |-> d]
WsChunk == [c |-> "ws"]
JunkChunk == [c |-> "junk"]
BadChunk == [c |-> "bad"]

IsBad(chunk) == chunk.c = "bad"
NotBad(chunk) == chunk.c # "bad"
NotWs(chunk) == chunk.c # "ws"

\* bytes.decode(charset): strict, UnicodeDecodeError on an undecodable byte
DecodeStrict(body) ==
    IF \E i \in 1..Len(body) : IsBad(body[i])
    THEN Raise("UnicodeDecodeError")
    ELSE Ok(body)

\* bytes.decode("utf-8", "ignore"): undecodable bytes are dropped
DecodeIgnore(body) == SelectSeq(body, NotBad)

\* json.loads(text): one JSON document, whitespace allowed around it
json_loads(text) ==
    LET core == SelectSeq(text, NotWs) IN
    IF Len(core) = 1 /\ core[1].c = "json" THEN Ok(core[1].doc)
    ELSE Raise("JSONDecodeError")

Is2xx(status) == status \in 200..299

\* The Request of lines 54-58: the Accept header, then the caller's.
Request(url, method, headers, data) ==
    [method |-> method, url |-> url,
     headers |-> << <<"Accept", JStr("application/json")>> >> \o headers,
     data |-> data]

\* What request_json returns or raises on the outcome the network gives.
request_json(url, outcome) ==
    CASE outcome.kind = "unreachable" ->
            Raise([type |-> "RuntimeError", msg |-> "Failed to reach",
                   url |-> url, reason |-> outcome.reason])
      [] outcome.kind = "read_timeout" ->
            Raise([type |-> "TimeoutError"])
      [] outcome.kind = "response" /\ ~Is2xx(outcome.status) ->
            Raise([type |-> "RuntimeError", msg |-> "HTTP",
                   code |-> outcome.status, url |-> url,
                   details |-> DecodeIgnore(outcome.body)])
      [] outcome.kind = "response" /\ Is2xx(outcome.status) ->
            LET payload == DecodeStrict(outcome.body) IN
            IF ~payload.ok THEN Raise([type |-> payload.exc])
            ELSE LET parsed == json_loads(payload.value) IN
                 IF parsed.ok THEN parsed
                 ELSE Raise([type |-> "RuntimeError",
                             msg |-> "Invalid JSON response", url |-> url])

----------------------------------------------------------------------------
(* obtain_token (storage_insights.py:76-96)                                *)

TokenUrl(tenant_uuid) ==
    API_BASE \o "/restapi/v1/tenants/" \o tenant_uuid \o "/token"

TokenRequest(api_key, tenant_uuid) ==
    Request(TokenUrl(tenant_uuid), "POST",
            << <<"x-api-key", JStr(api_key)>>,
               <<"Content-Type", JStr("application/json")>> >>,
            <<"{}">>)

\* int(s) for a str s: the integer whose decimal form s is, else ValueError.
\* The strings of the model carry no sign, space, underscore or leading zero.
IntOfStr(s) ==
    IF \E n \in 0..MaxParse : IntToStr(n) = s
    THEN Ok(CHOOSE n \in 0..MaxParse : IntToStr(n) = s)
    ELSE Raise("ValueError")

\* int(x)
PyInt(x) ==
    CASE x.t = "int" -> Ok(x.v)
      [] x.t = "bool" -> Ok(IF x.v THEN 1 ELSE 0)
      [] x.t = "float" -> Ok(IF x.v >= 0 THEN x.v \div 1000 ELSE -((-x.v) \div 1000))
      [] x.t = "inf" -> Raise("OverflowError")
      [] x.t = "str" -> IntOfStr(x.v)
      [] x.t \in {"null", "list", "dict"} -> Raise("TypeError")

\* lines 89-96 with a missing expiration read as 0 (result.get)
ParseTokenResponseDefault(response) ==
    LET caught == [type |-> "RuntimeError",
                   msg |-> "Unexpected token response structure",
                   response |-> response]
        result == Subscript(response, "result")
    IN  IF ~result.ok THEN Raise(caught)
        ELSE LET token == Subscript(result.value, "token") IN
             IF ~token.ok \/ result.value.t # "dict" THEN Raise(caught)
             ELSE LET expiration == PyInt(DictGet(result.value, "expiration", JInt(0))) IN
                  IF expiration.ok THEN Ok(<<token.value, expiration.value>>)
                  ELSE Raise(caught)

\* Lines 89-96 on the decoded response: <<token, expiration>>, or the
\* RuntimeError the except clause makes of a KeyError, TypeError or
\* ValueError; any other exception leaves the function as it is.
ParseTokenResponse(response) ==
    LET caught == [type |-> "RuntimeError",
                   msg |-> "Unexpected token response structure",
                   response |-> response]
        result == Subscript(response, "result")
    IN  IF ~result.ok THEN Raise(caught)
        ELSE LET token == Subscript(result.value, "token") IN
             IF ~token.ok THEN Raise(caught)
             ELSE LET exp == Subscript(result.value, "expiration") IN
                  IF ~exp.ok THEN Raise(caught)
                  ELSE LET expiration == PyInt(exp.value) IN
                       IF expiration.ok THEN Ok(<<token.value, expiration.value>>)
                       ELSE IF expiration.exc \in {"KeyError", "TypeError", "ValueError"}
                            THEN Raise(caught)
                            ELSE Raise([type |-> expiration.exc])

obtain_token(api_key, tenant_uuid, outcome) ==
    LET response == request_json(TokenUrl(tenant_uuid), outcome) IN
    IF ~response.ok THEN response ELSE ParseTokenResponse(response.value)

----------------------------------------------------------------------------
(* fetch_storage_systems (storage_insights.py:99-106)                      *)

\* parse.urlencode of the one parameter.  The storage types of the model
\* are made of unreserved characters, which quote_plus leaves as they are.
urlencode(key, value) == key \o "=" \o value

\* storage_type is optional: <<>> is None
StorageSystemsUrl(tenant_uuid, storage_type) ==
    LET given == Len(storage_type) = 1 /\ storage_type[1] # ""
        query == IF given THEN "?" \o urlencode("storage-type", storage_type[1]) ELSE ""
    IN  API_BASE \o "/restapi/v1/tenants/" \o tenant_uuid \o "/storage-systems" \o query

StorageSystemsRequest(tenant_uuid, token, storage_type) ==
    Request(StorageSystemsUrl(tenant_uuid, storage_type), "GET",
            << <<"x-api-token", token>> >>, <<>>)

fetch_storage_systems(tenant_uuid, token, storage_type, outcome) ==
    request_json(StorageSystemsUrl(tenant_uuid, storage_type), outcome)

----------------------------------------------------------------------------
(* json.dumps(payload, indent=2) (storage_insights.py:228)                 *)

RECURSIVE json_dumps(_, _), DumpItems(_, _), DumpPairs(_, _)
json_dumps(x, level) ==
    CASE x.t = "null" -> "null"
      [] x.t = "bool" -> IF x.v THEN "true" ELSE "false"
      [] x.t = "int" -> IntToStr(x.v)
      [] x.t = "float" -> FloatRepr(x.v)
      [] x.t = "inf" -> "Infinity"
      [] x.t = "str" -> "\"" \o x.v \o "\""
      [] x.t = "list" ->
            IF Len(x.v) = 0 THEN "[]"
            ELSE "[\n" \o DumpItems(x.v, level + 1) \o "\n"
                 \o Repeat("  ", level) \o "]"
      [] x.t = "dict" ->
            IF Len(x.v) = 0 THEN "{}"
            ELSE "{\n" \o DumpPairs(x.v, level + 1) \o "\n"
                 \o Repeat("  ", level) \o "}"
DumpItems(xs, level) ==
    Repeat("  ", level) \o json_dumps(xs[1], level)
    \o (IF Len(xs) = 1 THEN "" ELSE ",\n" \o DumpItems(Tail(xs), level))
DumpPairs(kvs, level) ==
    Repeat("  ", level) \o "\"" \o kvs[1][1] \o "\": " \o json_dumps(kvs[1][2], level)
    \o (IF Len(kvs) = 1 THEN "" ELSE ",\n" \o DumpPairs(Tail(kvs), level))

----------------------------------------------------------------------------
(* read_creds (storage_insights.py:18-42)                                  *)
(*                                                                         *)
(* The credential file is optional (<<>>: no such file); its content is    *)
(* the sequence of its lines that hold a colon, each as the loop sees it   *)
(* after split, strip and lower: [key |-> k, value |-> v].                 *)

\* lines 23-37: the last apikey / tenantid line wins; "" stands for None
RECURSIVE LastValue(_, _, _)
LastValue(lines, key, found) ==
    IF Len(lines) = 0 THEN found
    ELSE LastValue(Tail(lines), key,
                   IF lines[1].key = key THEN lines[1].value ELSE found)

read_creds(file) ==
    IF Len(file) = 0 THEN Raise([type |-> "FileNotFoundError"])
    ELSE LET api_key == LastValue(file[1], "apikey", "")
             tenant_id == LastValue(file[1], "tenantid", "")
         IN  IF api_key = "" \/ tenant_id = ""
             THEN Raise([type |-> "ValueError"])
             ELSE Ok(<<api_key, tenant_id>>)

----------------------------------------------------------------------------
(* main (storage_insights.py:201-241), one run, in six steps.  Each step   *)
(* is a function of the run's state r, the command line a and what the     *)
(* environment does at that step.                                          *)
(*                                                                         *)
(* r.pc is the next step, "done" after return 0, "raised" after an         *)
(* exception left main; r.exc then holds it with the function it came      *)
(* from.  r.requests are the HTTP requests issued so far, r.stdout the     *)
(* lines printed (tagged "info" or "table"), r.token_file, r.json_file and *)
(* r.table_file the content of the three output files.                     *)

NewRun ==
    [pc |-> "read_creds", exc |-> <<>>, requests |-> <<>>, stdout |-> <<>>,
     token_file |-> <<>>, json_file |-> <<>>, table_file |-> <<>>,
     api_key |-> <<>>, tenant_uuid |-> <<>>, token |-> <<>>,
     expiration_ms |-> <<>>, payload |-> <<>>, systems |-> <<>>,
     table_text |-> <<>>]

\* an exception leaves main: nothing after it runs
Fail(r, where, e) == [r EXCEPT !.pc = "raised", !.exc = <<[where |-> where, err |-> e]>>]

\* print(text) unless the line is informational and --quiet is given
Info(out, a, text) ==
    IF a.quiet THEN out ELSE Append(out, [kind |-> "info", text |-> text])

\* lines 204-207
StepReadCreds(r, a, file) ==
    LET creds == read_creds(file) IN
    IF ~creds.ok THEN Fail(r, "read_creds", creds.exc)
    ELSE [r EXCEPT !.api_key = <<creds.value[1]>>,
                   !.tenant_uuid = <<creds.value[2]>>,
                   !.stdout = Info(@, a, "Using tenant: " \o creds.value[2]),
                   !.pc = "obtain_token"]

\* the run after one more request was issued
Sent(r, request) == [r EXCEPT !.requests = Append(@, request)]

\* line 209 with one retry: the request is issued again after a failure
TokenBoundRetry(sent, got) ==
    IF ~got.ok
    THEN Fail(Sent(sent, sent.requests[Len(sent.requests)]), "obtain_token", got.exc)
    ELSE [sent EXCEPT !.token = <<got.value[1]>>,
                      !.expiration_ms = <<got.value[2]>>,
                      !.pc = "token_out"]

\* line 209, once obtain_token returned or raised
TokenBound(sent, got) ==
    IF ~got.ok THEN Fail(sent, "obtain_token", got.exc)
    ELSE [sent EXCEPT !.token = <<got.value[1]>>,
                      !.expiration_ms = <<got.value[2]>>,
                      !.pc = "token_out"]

\* line 209
StepObtainToken(r, a, outcome) ==
    TokenBound(Sent(r, TokenRequest(r.api_key[1], r.tenant_uuid[1])),
               obtain_token(r.api_key[1], r.tenant_uuid[1], outcome))

\* lines 211-217 with the write of the token file left out
TokenWrittenSkipped(r, a, write_ok, expiry) ==
    IF Len(a.token_out) = 0
    THEN [r EXCEPT !.stdout = Info(@, a, expiry), !.pc = "fetch"]
    ELSE [r EXCEPT !.stdout = Info(Info(@, a, "Wrote token to " \o a.token_out[1]),
                                   a, expiry),
                   !.pc = "fetch"]

\* lines 211-217: token + "\n" is a TypeError unless the token is a str;
\* write_text raises OSError when the file cannot be written
TokenWritten(r, a, write_ok, expiry) ==
    IF Len(a.token_out) = 0
    THEN [r EXCEPT !.stdout = Info(@, a, expiry), !.pc = "fetch"]
    ELSE IF r.token[1].t # "str" THEN Fail(r, "main", [type |-> "TypeError"])
    ELSE IF ~write_ok THEN Fail(r, "write_text", [type |-> "OSError"])
    ELSE [r EXCEPT !.token_file = <<r.token[1].v \o "\n">>,
                   !.stdout = Info(Info(@, a, "Wrote token to " \o a.token_out[1]),
                                   a, expiry),
                   !.pc = "fetch"]

StepTokenOut(r, a, write_ok) ==
    TokenWritten(r, a, write_ok,
                 "Token expiration (UTC): " \o _format_ts(JInt(r.expiration_ms[1])))

\* len(x): TypeError for a value that has no length
PyLen(x) ==
    CASE x.t \in {"list", "dict", "str"} -> Ok(Len(x.v))
      [] x.t \in {"null", "bool", "int", "float", "inf"} -> Raise("TypeError")

\* line 224: payload.get("storageType") or storage_type or "all"
SummaryType(payload, storage_type) ==
    LET named == DictGet(payload, "storageType", JNull) IN
    IF Truthy(named) THEN PyStr(named)
    ELSE IF Len(storage_type) = 1 THEN storage_type[1]
    ELSE "all"

\* line 225, printed unless --quiet
Retrieved(systems, summary_type) ==
    "Retrieved " \o IntToStr(PyLen(systems).value)
    \o " storage systems (storageType=" \o summary_type \o ")"

\* lines 221-225 on the payload fetched
SystemsBound(bound, a, payload, systems, storage_type) ==
    IF a.quiet THEN [bound EXCEPT !.systems = <<systems>>, !.pc = "json_out"]
    ELSE IF ~PyLen(systems).ok
    THEN Fail([bound EXCEPT !.systems = <<systems>>], "main", [type |-> "TypeError"])
    ELSE [bound EXCEPT !.systems = <<systems>>,
                       !.stdout = Info(@, a, Retrieved(systems,
                                          SummaryType(payload, storage_type))),
                       !.pc = "json_out"]

\* lines 220-221 with a failed fetch caught and read as an empty payload
PayloadBoundSwallow(sent, a, got, storage_type) ==
    IF ~got.ok
    THEN SystemsBound([Fail(sent, "fetch_storage_systems", got.exc)
                           EXCEPT !.payload = <<JDict(<<>>)>>],
                      a, JDict(<<>>), JList(<<>>), storage_type)
    ELSE IF got.value.t # "dict"
    THEN Fail([sent EXCEPT !.payload = <<got.value>>], "main",
              [type |-> "AttributeError"])
    ELSE SystemsBound([sent EXCEPT !.payload = <<got.value>>], a, got.value,
                      DictGet(got.value, "data", JList(<<>>)), storage_type)

\* lines 220-221 with payload.get("data") given no default
PayloadBoundNoDefault(sent, a, got, storage_type) ==
    IF ~got.ok THEN Fail(sent, "fetch_storage_systems", got.exc)
    ELSE IF got.value.t # "dict"
    THEN Fail([sent EXCEPT !.payload = <<got.value>>], "main",
              [type |-> "AttributeError"])
    ELSE SystemsBound([sent EXCEPT !.payload = <<got.value>>], a, got.value,
                      DictGet(got.value, "data", JNull), storage_type)

\* lines 220-221, once fetch_storage_systems returned or raised:
\* payload.get is an AttributeError unless the payload is a dict
PayloadBound(sent, a, got, storage_type) ==
    IF ~got.ok THEN Fail(sent, "fetch_storage_systems", got.exc)
    ELSE IF got.value.t # "dict"
    THEN Fail([sent EXCEPT !.payload = <<got.value>>], "main",
              [type |-> "AttributeError"])
    ELSE SystemsBound([sent EXCEPT !.payload = <<got.value>>], a, got.value,
                      DictGet(got.value, "data", JList(<<>>)), storage_type)

\* line 219: args.storage_type or None
StorageTypeArg(a) == IF a.storage_type # "" THEN <<a.storage_type>> ELSE <<>>

\* lines 219-225
StepFetch(r, a, outcome) ==
    PayloadBound(Sent(r, StorageSystemsRequest(r.tenant_uuid[1], r.token[1],
                                               StorageTypeArg(a))),
                 a,
                 fetch_storage_systems(r.tenant_uuid[1], r.token[1],
                                       StorageTypeArg(a), outcome),
                 StorageTypeArg(a))

\* lines 227-230
StepJsonOut(r, a, write_ok) ==
    IF Len(a.json_out) = 0 THEN [r EXCEPT !.pc = "table"]
    ELSE IF ~write_ok THEN Fail(r, "write_text", [type |-> "OSError"])
    ELSE [r EXCEPT !.json_file = <<json_dumps(r.payload[1], 0) \o "\n">>,
                   !.stdout = Info(@, a, "Wrote JSON payload to " \o a.json_out[1]),
                   !.pc = "table"]

\* lines 234-239 on the table built
TableShown(shown, a, write_ok, text) ==
    IF Len(a.table_out) = 0 THEN [shown EXCEPT !.pc = "done"]
    ELSE IF ~write_ok THEN Fail(shown, "write_text", [type |-> "OSError"])
    ELSE [shown EXCEPT !.table_file = <<text \o "\n">>,
                       !.stdout = Info(@, a, "Wrote table to " \o a.table_out[1]),
                       !.pc = "done"]

\* print(table_text) when --table is given
Shown(r, a, text) ==
    [r EXCEPT !.table_text = <<text>>,
              !.stdout = IF a.table
                         THEN Append(@, [kind |-> "table", text |-> text])
                         ELSE @]

\* lines 233-239, once build_table returned or raised
TableBuilt(r, a, write_ok, built) ==
    IF ~built.ok THEN Fail(r, "build_table", [type |-> built.exc])
    ELSE TableShown(Shown(r, a, built.value), a, write_ok, built.value)

\* lines 232-241
StepTable(r, a, write_ok) ==
    IF ~a.table /\ Len(a.table_out) = 0 THEN [r EXCEPT !.pc = "done"]
    ELSE TableBuilt(r, a, write_ok, build_table(r.systems[1], a.limit))

----------------------------------------------------------------------------
(* The inputs the model draws from.                                        *)

\* sequences over S of length at most n
SeqsUpTo(S, n) == UNION {[1..k -> S] : k \in 0..n}

Dict1(k1, v1) == JDict(<< <<k1, v1>> >>)
Dict2(k1, v1, k2, v2) == JDict(<< <<k1, v1>>, <<k2, v2>> >>)

\* command lines: --limit is any int argparse reads, None when absent
LimitValues == {<<>>} \cup {<<k>> : k \in (-1)..MaxLimit}
ArgsSet ==
    [storage_type : {"", "block"},
     json_out : {<<>>, <<"systems.json">>},
     table : BOOLEAN,
     table_out : {<<>>, <<"systems.txt">>},
     token_out : {<<>>, <<"token.txt">>},
     limit : LimitValues,
     quiet : BOOLEAN]

\* credential files
CredLines ==
    {[key |-> "apikey", value |-> "KEY"], [key |-> "tenantid", value |-> "T1"],
     [key |-> "tenantid", value |-> ""], [key |-> "note", value |-> "x"]}
CredFiles == {<<>>} \cup {<<lines>> : lines \in SeqsUpTo(CredLines, 2)}

\* what the network may do with a request
Unreachable(reason) == [kind |-> "unreachable", reason |-> reason]
ReadTimeout == [kind |-> "read_timeout"]
Response(status, body) == [kind |-> "response", status |-> status, body |-> body]

\* token responses
TokenValues == {JStr("tokenA"), JStr(""), JInt(5), JNull, JList(<<>>)}
ExpirationValues ==
    {JInt(0), JInt(86401500), JStr("123"), JStr("abc"), JStr(""), JFloat(1500),
     JBool(TRUE), JNull, JInf, JList(<<>>)}
TokenDocs ==
    {Dict1("result", Dict2("token", t, "expiration", e)) :
        t \in TokenValues, e \in ExpirationValues}
    \cup {Dict1("result", Dict2("expiration", e, "token", JStr("tokenB"))) :
        e \in ExpirationValues}
    \cup {Dict1("result", Dict1("token", t)) : t \in TokenValues}
    \cup {Dict1("result", Dict1("expiration", e)) : e \in ExpirationValues}
    \cup {Dict1("result", x) :
        x \in {JNull, JStr("token"), JList(<<>>), JInt(1), JDict(<<>>)}}
    \cup {JDict(<<>>), Dict1("token", JStr("tokenA")),
          Dict2("status", JStr("ok"), "result",
                Dict2("token", JStr("tokenA"), "expiration", JInt(1500))),
          JNull, JList(<<>>), JStr("result"), JInt(0)}
TokenOutcomes ==
    {Response(200, <<JsonChunk(d)>>) : d \in TokenDocs}
    \cup {Unreachable("timed out"), ReadTimeout, Response(401, <<JunkChunk>>),
          Response(200, <<>>), Response(200, <<BadChunk>>)}

\* bodies and outcomes given to request_json on its own
HttpDocs == {JDict(<<>>), JList(<<>>), JInt(1)}
Chunks == {JsonChunk(d) : d \in HttpDocs} \cup {WsChunk, JunkChunk, BadChunk}
Bodies == SeqsUpTo(Chunks, MaxBody)
Statuses == {200, 204, 304, 400, 404, 500}
HttpOutcomes ==
    {Response(st, b) : st \in Statuses, b \in Bodies}
    \cup {Unreachable("timed out"), Unreachable("Name or service not known"),
          ReadTimeout}

\* storage-system records given to build_table on its own
Records ==
    {Dict2("name", JStr("sys1"), "condition", JStr("Normal")),
     JDict(<< <<"name", JStr("sys2")>>, <<"last_successful_probe", JInt(0)>>,
              <<"last_successful_monitor", JNull>>, <<"condition", JStr("Warning")>> >>),
     JDict(<< <<"name", JStr("a-long-storage-system-name")>>,
              <<"last_successful_probe", JInt(86401500)>>,
              <<"last_successful_monitor", JInt(1000)>>,
              <<"condition", JStr("Normal")>> >>),
     JDict(<< <<"name", JInt(7)>>,
              <<"last_successful_probe", JStr("not-a-timestamp-from-the-backend")>>,
              <<"last_successful_monitor", JStr("")>>, <<"condition", JNull>> >>),
     JDict(<<>>),
     JDict(<< <<"name", JStr("sys6")>>, <<"last_successful_probe", JBool(TRUE)>>,
              <<"last_successful_monitor", JFloat(1500)>>,
              <<"condition", JStr("Normal")>> >>),
     JDict(<< <<"last_successful_probe", JList(<<JInt(1)>>)>>,
              <<"last_successful_monitor", JInf>>, <<"condition", JStr("Error")>> >>),
     JDict(<< <<"name", JStr("sys8")>>, <<"last_successful_probe", JBool(FALSE)>>,
              <<"last_successful_monitor", JList(<<>>)>> >>)}

\* what a run of main may meet: a token exchange that succeeds with a str
\* token, succeeds with a token that is no str, or fails in each way
RunTokenOutcomes ==
    {Response(200, <<JsonChunk(Dict1("result",
                        Dict2("token", JStr("tokenA"), "expiration", JInt(86401500))))>>),
     Response(200, <<JsonChunk(Dict1("result",
                        Dict2("token", JInt(5), "expiration", JInt(0))))>>),
     Response(200, <<JsonChunk(Dict1("result", JDict(<<>>)))>>),
     Response(200, <<BadChunk>>),
     Response(401, <<JunkChunk>>),
     Unreachable("timed out"), ReadTimeout}

\* listing payloads of a run
RunRecords ==
    {Dict2("name", JStr("sys1"), "condition", JStr("Normal")),
     JDict(<< <<"name", JStr("sys2")>>, <<"last_successful_probe", JInt(86401500)>>,
              <<"last_successful_monitor", JStr("n/a")>> >>)}
RunPayloads ==
    {Dict1("data", JList(xs)) : xs \in SeqsUpTo(RunRecords, MaxSystems)}
    \cup {Dict2("storageType", JStr("filer"), "data", JList(xs)) :
            xs \in SeqsUpTo(RunRecords, MaxSystems)}
    \cup {JDict(<<>>), Dict1("storageType", JStr("block")),
          Dict1("data", JNull), Dict1("data", JList(<<JInt(5)>>)),
          JList(<<>>)}
RunListingOutcomes ==
    {Response(200, <<JsonChunk(p)>>) : p \in RunPayloads}
    \cup {Response(200, <<JunkChunk>>), Response(500, <<JunkChunk>>),
          Unreachable("timed out")}

----------------------------------------------------------------------------
(* Spec: one run of main.                                                  *)

Init ==
    /\ args \in ArgsSet
    /\ run = NewRun
    /\ pair = <<>>
    /\ call = <<>>
    /\ ret = <<>>

ReadCreds ==
    /\ run.pc = "read_creds"
    /\ \E file \in CredFiles : run' = StepReadCreds(run, args, file)
    /\ UNCHANGED <<args, pair, call, ret>>

ObtainToken ==
    /\ run.pc = "obtain_token"
    /\ \E outcome \in RunTokenOutcomes : run' = StepObtainToken(run, args, outcome)
    /\ UNCHANGED <<args, pair, call, ret>>

TokenOut ==
    /\ run.pc = "token_out"
    /\ \E write_ok \in BOOLEAN : run' = StepTokenOut(run, args, write_ok)
    /\ UNCHANGED <<args, pair, call, ret>>

Fetch ==
    /\ run.pc = "fetch"
    /\ \E outcome \in RunListingOutcomes : run' = StepFetch(run, args, outcome)
    /\ UNCHANGED <<args, pair, call, ret>>

JsonOut ==
    /\ run.pc = "json_out"
    /\ \E write_ok \in BOOLEAN : run' = StepJsonOut(run, args, write_ok)
    /\ UNCHANGED <<args, pair, call, ret>>

Table ==
    /\ run.pc = "table"
    /\ \E write_ok \in BOOLEAN : run' = StepTable(run, args, write_ok)
    /\ UNCHANGED <<args, pair, call, ret>>

Next == ReadCreds \/ ObtainToken \/ TokenOut \/ Fetch \/ JsonOut \/ Table

Spec == Init /\ [][Next]_vars

----------------------------------------------------------------------------
(* SpecPair: two runs of main on the same command line, the same           *)
(* credential file, the same server and the same file system, one without  *)
(* --quiet (pair[FALSE]) and one with it (pair[TRUE]).  A step takes both   *)
(* runs through the same statement of main with the same environment; a    *)
(* run that has ended stays as it is.                                      *)

WithQuiet(a, q) == [a EXCEPT !.quiet = q]

InitPair ==
    /\ args \in {a \in ArgsSet : ~a.quiet}
    /\ pair = [q \in BOOLEAN |-> NewRun]
    /\ run = <<>>
    /\ call = <<>>
    /\ ret = <<>>

At(pc) == \E q \in BOOLEAN : pair[q].pc = pc

PairReadCreds ==
    /\ At("read_creds")
    /\ \E file \in CredFiles :
          pair' = [q \in BOOLEAN |->
                      IF pair[q].pc = "read_creds"
                      THEN StepReadCreds(pair[q], WithQuiet(args, q), file)
                      ELSE pair[q]]
    /\ UNCHANGED <<args, run, call, ret>>

PairObtainToken ==
    /\ At("obtain_token")
    /\ \E outcome \in RunTokenOutcomes :
          pair' = [q \in BOOLEAN |->
                      IF pair[q].pc = "obtain_token"
                      THEN StepObtainToken(pair[q], WithQuiet(args, q), outcome)
                      ELSE pair[q]]
    /\ UNCHANGED <<args, run, call, ret>>

PairTokenOut ==
    /\ At("token_out")
    /\ \E write_ok \in BOOLEAN :
          pair' = [q \in BOOLEAN |->
                      IF pair[q].pc = "token_out"
                      THEN StepTokenOut(pair[q], WithQuiet(args, q), write_ok)
                      ELSE pair[q]]
    /\ UNCHANGED <<args, run, call, ret>>

PairFetch ==
    /\ At("fetch")
    /\ \E outcome \in RunListingOutcomes :
          pair' = [q \in BOOLEAN |->
                      IF pair[q].pc = "fetch"
                      THEN StepFetch(pair[q], WithQuiet(args, q), outcome)
                      ELSE pair[q]]
    /\ UNCHANGED <<args, run, call, ret>>

PairJsonOut ==
    /\ At("json_out")
    /\ \E write_ok \in BOOLEAN :
          pair' = [q \in BOOLEAN |->
                      IF pair[q].pc = "json_out"
                      THEN StepJsonOut(pair[q], WithQuiet(args, q), write_ok)
                      ELSE pair[q]]
    /\ UNCHANGED <<args, run, call, ret>>

PairTable ==
    /\ At("table")
    /\ \E write_ok \in BOOLEAN :
          pair' = [q \in BOOLEAN |->
                      IF pair[q].pc = "table"
                      THEN StepTable(pair[q], WithQuiet(args, q), write_ok)
                      ELSE pair[q]]
    /\ UNCHANGED <<args, run, call, ret>>

NextPair ==
    PairReadCreds \/ PairObtainToken \/ PairTokenOut \/ PairFetch
    \/ PairJsonOut \/ PairTable

SpecPair == InitPair /\ [][NextPair]_vars

----------------------------------------------------------------------------
(* SpecCalls: one call of request_json, of obtain_token or of build_table  *)
(* on an input drawn from the sets above.                                  *)

InitCalls ==
    /\ call \in {[fn |-> "request_json", url |-> TokenUrl("T1"), outcome |-> o] :
                    o \in HttpOutcomes}
          \cup {[fn |-> "obtain_token", outcome |-> o] : o \in TokenOutcomes}
          \cup {[fn |-> "build_table", items |-> xs, limit |-> k] :
                    xs \in SeqsUpTo(Records, MaxRecords), k \in LimitValues}
    /\ ret = <<>>
    /\ args = <<>>
    /\ run = <<>>
    /\ pair = <<>>

CallRequestJson ==
    /\ call.fn = "request_json"
    /\ ret = <<>>
    /\ ret' = <<request_json(call.url, call.outcome)>>
    /\ UNCHANGED <<args, run, pair, call>>

CallObtainToken ==
    /\ call.fn = "obtain_token"
    /\ ret = <<>>
    /\ ret' = <<obtain_token("KEY", "T1", call.outcome)>>
    /\ UNCHANGED <<args, run, pair, call>>

CallBuildTable ==
    /\ call.fn = "build_table"
    /\ ret = <<>>
    /\ ret' = <<build_table(JList(call.items), call.limit)>>
    /\ UNCHANGED <<args, run, pair, call>>

NextCalls == CallRequestJson \/ CallObtainToken \/ CallBuildTable

SpecCalls == InitCalls /\ [][NextCalls]_vars

----------------------------------------------------------------------------
(* Claims about a run of main (Spec)                                       *)

Ended(r) == r.pc \in {"done", "raised"}
RaisedIn(r, where) == r.pc = "raised" /\ r.exc[1].where = where
TablePrinted(r) == \E i \in 1..Len(r.stdout) : r.stdout[i].kind = "table"

\* C1: the requests a run has issued are a prefix of <<token POST, listing
\* GET>>: nothing before the credentials are resolved, the token POST exactly
\* once from the token exchange on, the listing GET once and only with a
\* token obtained, and no further request after a failed one.
C1_RequestsArePrefix ==
    LET n == Len(run.requests) IN
    /\ n <= 2
    /\ n >= 1 => run.requests[1] = TokenRequest(run.api_key[1], run.tenant_uuid[1])
    /\ n = 2 => /\ run.requests[2].method = "GET"
                /\ run.requests[2].url =
                       StorageSystemsUrl(run.tenant_uuid[1], StorageTypeArg(args))
                /\ Len(run.token) = 1
    /\ Len(run.api_key) = 0 => n = 0
    /\ (Len(run.api_key) = 1 /\ run.pc # "obtain_token") => n >= 1
    /\ run.pc \in {"token_out", "fetch"} => n = 1
    /\ run.pc \in {"json_out", "table", "done"} => n = 2
    /\ RaisedIn(run, "obtain_token") => n = 1
    /\ RaisedIn(run, "fetch_storage_systems") => n = 2

C1_Witness == run.pc = "done" /\ Len(run.requests) = 2

MandatorySteps == {"read_creds", "obtain_token", "fetch_storage_systems"}

\* C2: once credential resolution, the token exchange or the listing fetch
\* has failed, the run has ended with the exception, and no JSON file and
\* no table exists: none built, printed or written, whatever the flags.
C2_NoPartialSuccess ==
    (Len(run.exc) = 1 /\ run.exc[1].where \in MandatorySteps) =>
        /\ run.pc = "raised"
        /\ run.json_file = <<>>
        /\ run.table_file = <<>>
        /\ run.table_text = <<>>
        /\ ~TablePrinted(run)

C2_Witness ==
    /\ RaisedIn(run, "fetch_storage_systems")
    /\ Len(args.json_out) = 1 /\ args.table /\ Len(args.table_out) = 1

\* C10: with --token-out, the token file holds the token in every state in
\* which the listing GET has been issued; it is written only after the
\* token exchange succeeded; a run whose listing fetch fails ends with the
\* token file written and no JSON or table file; and a run that could not
\* write the token file issues no listing request.
C10_TokenFileBeforeListing ==
    Len(args.token_out) = 1 =>
        /\ Len(run.requests) = 2 =>
              /\ Len(run.token) = 1
              /\ run.token[1].t = "str"
              /\ run.token_file = <<run.token[1].v \o "\n">>
        /\ run.token_file # <<>> => (Len(run.token) = 1 /\ Len(run.requests) >= 1)
        /\ RaisedIn(run, "fetch_storage_systems") =>
              /\ run.token_file # <<>>
              /\ run.json_file = <<>>
              /\ run.table_file = <<>>
        /\ (run.token_file = <<>> /\ run.pc \notin {"read_creds", "obtain_token", "token_out"}) =>
              (run.pc = "raised" /\ Len(run.requests) <= 1)

C10_Witness == RaisedIn(run, "fetch_storage_systems") /\ run.token_file # <<>>

DataAbsent ==
    /\ Len(run.payload) = 1
    /\ run.payload[1].t = "dict"
    /\ ~HasKey(run.payload[1], "data")

\* the table of no record: the header row and the divider row
EmptyTable ==
    "Name | Last Successful Probe (UTC) | Last Successful Monitor (UTC) | Condition\n"
    \o "-----+-----------------------------+-------------------------------+----------"

\* C8: a payload without data is read as one with no record: the systems
\* are the empty list, nothing raises but a file that cannot be written,
\* the line printed counts 0 storage systems, and a table built is the
\* header row and the divider row alone.
C8_AbsentDataIsEmpty ==
    DataAbsent =>
        /\ run.systems = <<JList(<<>>)>>
        /\ run.pc = "raised" => run.exc[1].where = "write_text"
        /\ ~args.quiet =>
              \E i \in 1..Len(run.stdout) :
                  run.stdout[i].text =
                      "Retrieved 0 storage systems (storageType="
                      \o SummaryType(run.payload[1], StorageTypeArg(args)) \o ")"
        /\ Len(run.table_text) = 1 => run.table_text[1] = EmptyTable
        /\ run.pc = "done" =>
              /\ (args.table \/ Len(args.table_out) = 1) => Len(run.table_text) = 1
              /\ args.table => TablePrinted(run)
              /\ Len(args.table_out) = 1 => run.table_file = <<EmptyTable \o "\n">>

C8_Witness ==
    /\ DataAbsent
    /\ run.pc = "done"
    /\ args.table /\ Len(args.table_out) = 1 /\ ~args.quiet

----------------------------------------------------------------------------
(* Claim about two runs that differ in --quiet (SpecPair)                  *)

IsTable(line) == line.kind = "table"

\* C9: --quiet changes only the informational lines: when both runs have
\* ended, they have issued the same requests, written the same files,
\* printed the same table and ended the same way.
C9_QuietOnlySuppressesInfo ==
    (Ended(pair[TRUE]) /\ Ended(pair[FALSE])) =>
        /\ pair[TRUE].requests = pair[FALSE].requests
        /\ pair[TRUE].token_file = pair[FALSE].token_file
        /\ pair[TRUE].json_file = pair[FALSE].json_file
        /\ pair[TRUE].table_file = pair[FALSE].table_file
        /\ SelectSeq(pair[TRUE].stdout, IsTable) = SelectSeq(pair[FALSE].stdout, IsTable)
        /\ pair[TRUE].pc = pair[FALSE].pc

----------------------------------------------------------------------------
(* Claims about obtain_token (SpecCalls)                                   *)

\* the call is obtain_token, it has ended, and request_json gave it a
\* decoded response
TokenCallDecoded ==
    /\ call.fn = "obtain_token"
    /\ Len(ret) = 1
    /\ call.outcome.kind = "response"
    /\ call.outcome.status = 200
    /\ Len(call.outcome.body) = 1
    /\ call.outcome.body[1].c = "json"

Malformed(res) ==
    /\ ~res.ok
    /\ res.exc.type = "RuntimeError"
    /\ "msg" \in DOMAIN res.exc
    /\ res.exc.msg = "Unexpected token response structure"

\* {result: {token: T, expiration: E}} with a str T and an int E
WellShaped(response) ==
    /\ response.t = "dict"
    /\ HasKey(response, "result")
    /\ Lookup(response, "result").t = "dict"
    /\ HasKey(Lookup(response, "result"), "token")
    /\ Lookup(Lookup(response, "result"), "token").t = "str"
    /\ HasKey(Lookup(response, "result"), "expiration")
    /\ Lookup(Lookup(response, "result"), "expiration").t = "int"

\* result, token or expiration is missing
SomethingMissing(response) ==
    /\ response.t = "dict"
    /\ \/ ~HasKey(response, "result")
       \/ /\ Lookup(response, "result").t = "dict"
          /\ \/ ~HasKey(Lookup(response, "result"), "token")
             \/ ~HasKey(Lookup(response, "result"), "expiration")

\* C3: obtain_token returns exactly (T, E) on a response of shape
\* {result: {token: T, expiration: E}}, and raises the malformed-response
\* error, returning nothing, when result, token or expiration is missing.
C3_TokenReturnedOrMissing ==
    TokenCallDecoded =>
        LET response == call.outcome.body[1].doc IN
        /\ WellShaped(response) =>
              ret[1] = Ok(<<Lookup(Lookup(response, "result"), "token"),
                            Lookup(Lookup(response, "result"), "expiration").v>>)
        /\ SomethingMissing(response) => Malformed(ret[1])

C3_Witness ==
    /\ TokenCallDecoded
    /\ WellShaped(call.outcome.body[1].doc)
    /\ ret[1] = Ok(<<JStr("tokenA"), 86401500>>)

\* an expiration that reads as an integer: an int, or a str of digits
IntegerLike(e) == e.t = "int" \/ (e.t = "str" /\ IntOfStr(e.v).ok)

\* result is no object, token is no str, or expiration is not integer-like
WrongTyped(response) ==
    \/ response.t # "dict"
    \/ /\ HasKey(response, "result")
       /\ \/ Lookup(response, "result").t # "dict"
          \/ /\ HasKey(Lookup(response, "result"), "token")
             /\ Lookup(Lookup(response, "result"), "token").t # "str"
          \/ /\ HasKey(Lookup(response, "result"), "expiration")
             /\ ~IntegerLike(Lookup(Lookup(response, "result"), "expiration"))

\* C4: obtain_token raises the malformed-response error whenever result,
\* token or expiration is wrong-typed or non-numeric, and returns no pair
\* made by defaulting or truncating such a value.
C4_WrongTypedFails ==
    (TokenCallDecoded /\ WrongTyped(call.outcome.body[1].doc)) => Malformed(ret[1])

----------------------------------------------------------------------------
(* Claim about request_json (SpecCalls)                                    *)

\* the body is the text of one JSON document
ValidJson(body) ==
    /\ \A i \in 1..Len(body) : body[i].c \in {"json", "ws"}
    /\ Cardinality({i \in 1..Len(body) : body[i].c = "json"}) = 1

ErrorOf(res, msg) ==
    /\ ~res.ok
    /\ "msg" \in DOMAIN res.exc
    /\ res.exc.msg = msg

\* C5: request_json returns a value only for a 2xx response with a valid
\* JSON body; a status >= 400 gives the HTTP status error with the status
\* code and the body verbatim, a connection, DNS or timeout failure gives
\* the transport error, and a 2xx body that is not valid JSON gives the
\* decode error.
C5_EveryOutcomeTyped ==
    (call.fn = "request_json" /\ Len(ret) = 1) =>
        LET o == call.outcome
            res == ret[1]
        IN  /\ res.ok => (o.kind = "response" /\ Is2xx(o.status) /\ ValidJson(o.body))
            /\ (o.kind = "response" /\ o.status >= 400) =>
                  /\ ErrorOf(res, "HTTP")
                  /\ res.exc.code = o.status
                  /\ res.exc.details = o.body
            /\ o.kind \in {"unreachable", "read_timeout"} => ErrorOf(res, "Failed to reach")
            /\ (o.kind = "response" /\ Is2xx(o.status) /\ ~ValidJson(o.body)) =>
                  ErrorOf(res, "Invalid JSON response")

----------------------------------------------------------------------------
(* Claims about build_table (SpecCalls)                                    *)

TableCall == call.fn = "build_table" /\ Len(ret) = 1

\* the table whose body rows are the first m records, in their order
TableOfFirst(items, m) ==
    Ok(RenderTable([i \in 1..m |-> TableRow(items[i])],
                   Widths([i \in 1..m |-> TableRow(items[i])], HeaderWidths)))

\* C6 as stated: with a limit k, build_table renders exactly min(k, n) body
\* rows, row i from record i; with no limit, n rows.
C6_MinOfLimitAndLength ==
    TableCall =>
        \E m \in 0..Len(call.items) :
            /\ ret[1] = TableOfFirst(call.items, m)
            /\ m = IF Len(call.limit) = 0 THEN Len(call.items)
                   ELSE Min(call.limit[1], Len(call.items))

\* C6 as amended: with a limit k, build_table renders exactly
\* min(max(k, 0), n) body rows after the header and the divider, row i from
\* record i; with no limit, n rows.
C6_RowsUpToLimit ==
    TableCall =>
        \E m \in 0..Len(call.items) :
            /\ ret[1] = TableOfFirst(call.items, m)
            /\ m = IF Len(call.limit) = 0 THEN Len(call.items)
                   ELSE Min(Max(call.limit[1], 0), Len(call.items))

C6_Witness ==
    /\ TableCall
    /\ Len(call.items) = 3
    /\ call.limit = <<2>>
    /\ ret[1].ok

Falsy(v) ==
    \/ v.t = "null"
    \/ v.t = "bool" /\ v.v = FALSE
    \/ v.t \in {"int", "float"} /\ v.v = 0
    \/ v.t = "str" /\ v.v = ""
    \/ v.t \in {"list", "dict"} /\ v.v = <<>>

\* what the claim asks of a timestamp cell
TimestampCell(v) ==
    IF Falsy(v) THEN Placeholder
    ELSE IF v.t \in {"int", "bool", "float"}
    THEN IsoFormat(EpochSeconds(v)[1], EpochSeconds(v)[2])
    ELSE PyStr(v)

CellsOf(item) ==
    << PyStr(DictGet(item, "name", JStr(""))),
       TimestampCell(DictGet(item, "last_successful_probe", JNull)),
       TimestampCell(DictGet(item, "last_successful_monitor", JNull)),
       PyStr(DictGet(item, "condition", JStr(""))) >>

RowsShown ==
    IF Len(call.limit) = 0 THEN Len(call.items)
    ELSE Min(Max(call.limit[1], 0), Len(call.items))

\* C7: build_table returns a table for every sequence of records, and in
\* it a missing or falsy timestamp is the placeholder, an epoch-millisecond
\* value is its ISO-8601 UTC string, and a value that cannot be converted
\* is its str().
C7_TimestampsNeverFail ==
    TableCall =>
        /\ ret[1].ok
        /\ ret[1].value =
              RenderTable([i \in 1..RowsShown |-> CellsOf(call.items[i])],
                          Widths([i \in 1..RowsShown |-> CellsOf(call.items[i])],
                                 HeaderWidths))

C7_Witness ==
    /\ TableCall
    /\ ret[1].ok
    /\ Len(call.limit) = 0
    /\ \E i \in 1..Len(call.items) :
          DictGet(call.items[i], "last_successful_probe", JNull)
              = JStr("not-a-timestamp-from-the-backend")
    /\ \E i \in 1..Len(call.items) : call.items[i] = JDict(<<>>)
    /\ \E i \in 1..Len(call.items) :
          DictGet(call.items[i], "last_successful_probe", JNull) = JInt(86401500)

=============================================================================
